---- MODULE Spec2Model ----
(***************************************************************************)
(* Model of the question feed page, client/src/pages/HomePage.tsx.         *)
(*                                                                         *)
(* The page is a React function component.  Its state is the four useState *)
(* cells (questions, isLoading, error, sortBy) and the fetch requests that *)
(* are in flight.  The viewer of the auth context and the token held by    *)
(* localStorage belong to collaborators; a handler reads them once, when   *)
(* it is invoked, so they are inputs of the invocation.                    *)
(*                                                                         *)
(* JavaScript is single threaded: a handler runs to its await in one step  *)
(* and the continuation after the await runs to its end in one step, so    *)
(* each of those is one action here.                                       *)
(*                                                                         *)
(* A handler is a closure created by a render: the `questions` it reads is *)
(* the value of the render that created it.  A request in flight therefore *)
(* carries `snap`, the `questions` its handler closed over.                *)
(*                                                                         *)
(* prompts, sent and toasts hold what the step taken last did to the       *)
(* page's collaborators (confirm(), fetch(), toast()), lastAct holds its   *)
(* inputs, and deleted the ids whose removal the page has applied; none of *)
(* them influences the page.  response holds the Question objects the list *)
(* response delivered; questions holds their ids.                          *)
(***************************************************************************)
EXTENDS Integers, Sequences, FiniteSets, Bags, TLC

\* ------------------------------------------------------------------ bounds
NumQ == 2          \* the question ids the service can deliver are 1..NumQ
MaxInflight == 2   \* moderation requests in flight at one time
MaxDirect == 1     \* requests of directly called handlers in flight at one time
NumS == 3          \* questions of a response whose sorted view is examined
MaxVote == 1       \* vote counts are -1..MaxVote
MaxTime == 1       \* creation days are 0..MaxTime

QIds == 1..NumQ

\* question.userId._id of the question with id q: questions 1 and 2 are by
\* user 1, questions 3 and 4 by user 2, ...
AuthorOf(q) == (q + 1) \div 2

UserIds == {AuthorOf(q) : q \in QIds}

\* ------------------------------------------------------------- environment
NoUser == "none"                       \* useAuth() returned user = null
\* "member" stands for every role other than admin
Viewers == {NoUser, "member", "admin"}

NoToken == "<null>"                    \* localStorage.getItem("token") === null
Tokens == {NoToken, "tok"}

\* messages of the TypeError a rejected fetch() carries
NetworkErrorMessages == {"Failed to fetch"}
\* message of the SyntaxError a rejected response.json() carries
ParseErrorMessage == "Unexpected token < in JSON"

ListOutcomes == {"ok", "http", "network", "parse"}
CallOutcomes == {"ok", "http", "network"}

SortKeys == {"newest", "votes", "activity"}

Range(s) == {s[i] : i \in 1..Len(s)}

\* the `questions` arrays a list response can carry.  Ids are opaque to the
\* page and unique, so the questions are numbered in the order of the response
Responses == {[i \in 1..n |-> i] : n \in 0..NumQ}

\* a Question object of the response (the fields the page computes with)
Question(id, voteCount, createdAt) ==
    [id |-> id, voteCount |-> voteCount, createdAt |-> createdAt]

\* what the service holds for question q: q - 1 votes, and the questions are
\* numbered from the newest to the oldest (createdAt counts days)
Stored(q) == Question(q, q - 1, NumQ - q)

\* the response that carries the questions ids, in that order
Delivered(ids) == [i \in 1..Len(ids) |-> Stored(ids[i])]

\* the response is stored back to front
Ids_Reversed(data) == [i \in 1..Len(data) |-> data[Len(data) + 1 - i].id]

\* the ids of the questions that setQuestions(data.questions) stores
Ids(data) == [i \in 1..Len(data) |-> data[i].id]

\* -------------------------------------------------------------------- state
VARIABLES
    questions,     \* useState<Question[]>([])      (ids, in stored order)
    isLoading,     \* useState(true)
    error,         \* useState("")
    sortBy,        \* useState("newest")
    mounted,       \* the component is mounted
    loadPending,   \* the GET /api/questions of the mount effect is in flight
    inflight,      \* bag of the DELETE / PUT requests in flight
    deleted,       \* ids whose successful delete has been applied to questions
                   \* (recorded by SpecUI only)
    response,      \* the `questions` array of the list response, <<>> before it
    lastAct,       \* the step taken last and its inputs
    prompts,       \* confirm() dialogs shown by the last step
    sent,          \* requests handed to fetch() by the last step
    toasts         \* toast() calls of the last step

vars == <<questions, isLoading, error, sortBy, mounted, loadPending, inflight,
          deleted, response, lastAct, prompts, sent, toasts>>

\* viewer is the viewer a handler invocation saw and confirmed what its
\* confirm() returned; target, outcome and thrown are the request a
\* continuation resumed from and its result
Act(name, viewer, target, confirmed, outcome, thrown) ==
    [name |-> name, viewer |-> viewer, target |-> target,
     confirmed |-> confirmed, outcome |-> outcome, thrown |-> thrown]

Toast(variant, title, description) ==
    [variant |-> variant, title |-> title, description |-> description]

\* the request a handler hands to fetch()
Request(method, target, auth) ==
    [method |-> method, target |-> target, auth |-> auth]

\* a fetch() awaited by a handler
Pending(kind, target, snap) ==
    [kind |-> kind, target |-> target, snap |-> snap]

\* a useState setter: React drops the update of an unmounted component
SetState(new, old) == IF mounted THEN new ELSE old

\* the three returns of the render function
Status ==
    IF isLoading THEN "Loading"
    ELSE IF error # "" THEN "Errored"
    ELSE "Ready"

\* the catch block shows its fixed text and drops error.message
OrElse_Fallback(a, b) == b

\* JavaScript a || b on strings
OrElse(a, b) == IF a = "" THEN b ELSE a

\* the guard tests only that a viewer is signed in
IsAdmin_AnyUser(u) == u # NoUser

\* !(!user || user.role !== 'admin')
IsAdmin(u) == u # NoUser /\ u = "admin"

\* `Bearer ${localStorage.getItem("token")}`: a template literal writes null
\* as the text "null"
Bearer(t) == <<"Bearer", IF t = NoToken THEN "null" ELSE t>>

\* splice(indexOf(id), 1): an index of -1 removes the last element
Filter_Splice(s, id) ==
    IF id \in Range(s)
    THEN LET i == CHOOSE j \in 1..Len(s) : s[j] = id
         IN  SubSeq(s, 1, i - 1) \o SubSeq(s, i + 1, Len(s))
    ELSE SubSeq(s, 1, Len(s) - 1)

\* questions.filter(q => q._id !== questionId)
RECURSIVE Filter(_, _)
Filter(s, id) ==
    IF s = <<>> THEN <<>>
    ELSE IF Head(s) # id THEN <<Head(s)>> \o Filter(Tail(s), id)
    ELSE Filter(Tail(s), id)

\* the first render and its effect: fetchQuestions() has run to its await
Init ==
    /\ questions = <<>>
    /\ isLoading = TRUE
    /\ error = ""
    /\ sortBy = "newest"
    /\ mounted = TRUE
    /\ loadPending = TRUE
    /\ inflight = EmptyBag
    /\ deleted = {}
    /\ response = <<>>
    /\ lastAct = Act("mount", NoUser, 0, FALSE, "", "")
    /\ prompts = 0
    /\ sent = <<Request("GET", 0, <<>>)>>
    /\ toasts = <<>>

\* ------------------------------------------------------------ initial load
\* a payload that cannot be read is taken for an empty answer
ListThrown_ParseIgnored(outcome, msg) ==
    CASE outcome = "network" -> msg
      [] outcome = "http"    -> "Failed to fetch questions"
      [] OTHER               -> ""

\* the error the try block of fetchQuestions throws, "" when it throws none
ListThrown(outcome, msg) ==
    CASE outcome = "network" -> msg
      [] outcome = "http"    -> "Failed to fetch questions"
      [] outcome = "parse"   -> ParseErrorMessage
      [] OTHER               -> ""

\* setIsLoading(false) sits at the end of the try block instead of in finally
FetchQuestionsDone_NoFinally(outcome, msg) ==
    /\ loadPending
    /\ loadPending' = FALSE
    /\ IF outcome = "ok"
       THEN \E resp \in Responses :
            /\ response' = Delivered(resp)
            /\ questions' = SetState(Ids(response'), questions)
            /\ error' = error
            /\ toasts' = <<>>
            /\ isLoading' = SetState(FALSE, isLoading)
       ELSE /\ response' = response
            /\ error' = SetState(ListThrown(outcome, msg), error)
            /\ toasts' = <<Toast("destructive", "Error",
                              "Failed to load questions. Please try again later.")>>
            /\ questions' = questions
            /\ isLoading' = isLoading
    /\ lastAct' = Act("fetchQuestionsDone", NoUser, 0, FALSE, outcome,
                      ListThrown(outcome, msg))
    /\ prompts' = 0
    /\ sent' = <<>>
    /\ UNCHANGED <<sortBy, mounted, inflight, deleted>>

\* continuation of fetchQuestions after its awaits
FetchQuestionsDone(outcome, msg) ==
    /\ loadPending
    /\ loadPending' = FALSE
    /\ IF outcome = "ok"
       THEN \E resp \in Responses :
            /\ response' = Delivered(resp)
            /\ questions' = SetState(Ids(response'), questions)
            /\ error' = error
            /\ toasts' = <<>>
       ELSE /\ response' = response
            /\ error' = SetState(ListThrown(outcome, msg), error)
            /\ toasts' = <<Toast("destructive", "Error",
                              "Failed to load questions. Please try again later.")>>
            /\ questions' = questions
    /\ isLoading' = SetState(FALSE, isLoading)
    /\ lastAct' = Act("fetchQuestionsDone", NoUser, 0, FALSE, outcome,
                      ListThrown(outcome, msg))
    /\ prompts' = 0
    /\ sent' = <<>>
    /\ UNCHANGED <<sortBy, mounted, inflight, deleted>>

\* ---------------------------------------------------------------- sorting
\* the Question object behind a stored id
Q(id) == CHOOSE x \in Range(response) : x.id = id

\* new Date(createdAt).getTime(): milliseconds, createdAt counting days
GetTime(createdAt) == createdAt * 86400000

\* the comparator sorts ascending: a - b
Compare_Ascending(a, b, key) ==
    CASE key = "votes"    -> a.voteCount - b.voteCount
      [] key = "activity" -> GetTime(a.createdAt) - GetTime(b.createdAt)
      [] OTHER            -> GetTime(a.createdAt) - GetTime(b.createdAt)

\* the comparator handed to sort(), for the sort key of the render
Compare(a, b, key) ==
    CASE key = "votes"    -> b.voteCount - a.voteCount
      [] key = "activity" -> GetTime(b.createdAt) - GetTime(a.createdAt)
      [] OTHER            -> GetTime(b.createdAt) - GetTime(a.createdAt)

\* x put into the sorted s before the first element that has to follow it
Insert(s, x, key) ==
    LET after == {i \in 1..Len(s) : Compare(s[i], x, key) > 0}
        at == IF after = {} THEN Len(s) + 1
              ELSE CHOOSE i \in after : \A j \in after : i <= j
    IN  SubSeq(s, 1, at - 1) \o <<x>> \o SubSeq(s, at, Len(s))

\* Array.prototype.sort with the comparator: a stable sort
RECURSIVE Sort(_, _)
Sort(s, key) ==
    IF s = <<>> THEN <<>>
    ELSE Insert(Sort(SubSeq(s, 1, Len(s) - 1), key), s[Len(s)], key)

\* the ids of the stored questions ids, sorted as the page sorts its questions
Sorted(ids, key) == Ids(Sort([i \in 1..Len(ids) |-> Q(ids[i])], key))

\* the tabs sort the stored array itself: questions.sort(...) without the copy
SetSortBy_SortsInPlace(k) ==
    /\ mounted
    /\ k # sortBy
    /\ sortBy' = k
    /\ questions' = Sorted(questions, k)
    /\ lastAct' = Act("setSortBy", NoUser, 0, FALSE, "", "")
    /\ prompts' = 0
    /\ sent' = <<>>
    /\ toasts' = <<>>
    /\ UNCHANGED <<isLoading, error, mounted, loadPending, inflight, deleted, response>>

\* onValueChange of the tabs
SetSortBy(k) ==
    /\ mounted
    /\ k # sortBy
    /\ sortBy' = k
    /\ lastAct' = Act("setSortBy", NoUser, 0, FALSE, "", "")
    /\ prompts' = 0
    /\ sent' = <<>>
    /\ toasts' = <<>>
    /\ UNCHANGED <<questions, isLoading, error, mounted, loadPending, inflight, deleted, response>>

\* const sortedQuestions = [...questions].sort(...)
SortedQuestions == Sorted(questions, sortBy)

\* -------------------------------------------------------------- moderation
\* the answer of confirm() is ignored
Declined_Never(ans) == FALSE

\* if (!confirm(...)) return;
Declined(ans) == ~ans

\* handleDeleteQuestion up to its await.  user is the viewer of the render
\* that created the handler; confirm() returns the viewer's answer and
\* localStorage.getItem("token") the stored token when the code calls them
handleDeleteQuestion(user, q) ==
    /\ mounted
    /\ toasts' = <<>>
    /\ IF ~IsAdmin(user)
       THEN /\ lastAct' = Act("handleDeleteQuestion", user, 0, FALSE, "", "")
            /\ prompts' = 0
            /\ sent' = <<>>
            /\ inflight' = inflight
       ELSE \E ans \in BOOLEAN :
            /\ lastAct' = Act("handleDeleteQuestion", user, 0, ans, "", "")
            /\ prompts' = 1
            /\ IF Declined(ans)
               THEN /\ sent' = <<>>
                    /\ inflight' = inflight
               ELSE \E token \in Tokens :
                    /\ BagCardinality(inflight) < MaxInflight
                    /\ sent' = <<Request("DELETE", q, Bearer(token))>>
                    /\ inflight' = inflight (+) SetToBag({Pending("delete", q, questions)})
    /\ UNCHANGED <<questions, isLoading, error, sortBy, mounted, loadPending, deleted, response>>

\* the error the try block of handleDeleteQuestion throws, "" when it throws none
DeleteThrown(outcome, msg) ==
    CASE outcome = "network" -> msg
      [] outcome = "http"    -> "Failed to delete question"
      [] OTHER               -> ""

\* questions.filter(...) is evaluated on the `questions` the handler closed over
Removed(r) == Filter(r.snap, r.target)

\* a failed delete is also stored as the page's error: setError(error.message)
DeleteContinue_SetsError(r, outcome, msg) ==
    /\ BagIn(r, inflight)
    /\ r.kind = "delete"
    /\ inflight' = inflight (-) SetToBag({r})
    /\ IF outcome = "ok"
       THEN /\ questions' = SetState(Removed(r), questions)
            /\ error' = error
            /\ toasts' = <<Toast("default", "Question deleted",
                              "The question and all its answers have been deleted.")>>
       ELSE /\ toasts' = <<Toast("destructive", "Error",
                              OrElse(DeleteThrown(outcome, msg), "Failed to delete question"))>>
            /\ error' = SetState(DeleteThrown(outcome, msg), error)
            /\ questions' = questions
    /\ lastAct' = Act("deleteDone", NoUser, r.target, FALSE, outcome,
                      DeleteThrown(outcome, msg))
    /\ prompts' = 0
    /\ sent' = <<>>
    /\ UNCHANGED <<isLoading, sortBy, mounted, loadPending, response>>

\* continuation of handleDeleteQuestion after its await
DeleteContinue(r, outcome, msg) ==
    /\ BagIn(r, inflight)
    /\ r.kind = "delete"
    /\ inflight' = inflight (-) SetToBag({r})
    /\ IF outcome = "ok"
       THEN /\ questions' = SetState(Removed(r), questions)
            /\ toasts' = <<Toast("default", "Question deleted",
                              "The question and all its answers have been deleted.")>>
       ELSE /\ toasts' = <<Toast("destructive", "Error",
                              OrElse(DeleteThrown(outcome, msg), "Failed to delete question"))>>
            /\ questions' = questions
    /\ lastAct' = Act("deleteDone", NoUser, r.target, FALSE, outcome,
                      DeleteThrown(outcome, msg))
    /\ prompts' = 0
    /\ sent' = <<>>
    /\ UNCHANGED <<isLoading, error, sortBy, mounted, loadPending, response>>

\* the continuation, its deletes not recorded
DeleteDone(r, outcome, msg) ==
    /\ DeleteContinue(r, outcome, msg)
    /\ deleted' = deleted

\* the continuation, recording the delete it applies
DeleteDoneRecorded(r, outcome, msg) ==
    /\ DeleteContinue(r, outcome, msg)
    /\ deleted' = IF outcome = "ok" /\ mounted THEN deleted \cup {r.target} ELSE deleted

\* handleBanUser up to its await
handleBanUser(user, u) ==
    /\ mounted
    /\ toasts' = <<>>
    /\ IF ~IsAdmin(user)
       THEN /\ lastAct' = Act("handleBanUser", user, 0, FALSE, "", "")
            /\ prompts' = 0
            /\ sent' = <<>>
            /\ inflight' = inflight
       ELSE \E ans \in BOOLEAN :
            /\ lastAct' = Act("handleBanUser", user, 0, ans, "", "")
            /\ prompts' = 1
            /\ IF Declined(ans)
               THEN /\ sent' = <<>>
                    /\ inflight' = inflight
               ELSE \E token \in Tokens :
                    /\ BagCardinality(inflight) < MaxInflight
                    /\ sent' = <<Request("PUT", u, Bearer(token))>>
                    /\ inflight' = inflight (+) SetToBag({Pending("ban", u, <<>>)})
    /\ UNCHANGED <<questions, isLoading, error, sortBy, mounted, loadPending, deleted, response>>

\* a rejected fetch() is rethrown as an error without a message
BanThrown_NoMessage(outcome, msg) ==
    CASE outcome = "http" -> "Failed to ban user"
      [] OTHER            -> ""

\* the error the try block of handleBanUser throws, "" when it throws none
BanThrown(outcome, msg) ==
    CASE outcome = "network" -> msg
      [] outcome = "http"    -> "Failed to ban user"
      [] OTHER               -> ""

\* a failed ban is sent again from the catch block
BanDone_Retry(r, outcome, msg) ==
    /\ BagIn(r, inflight)
    /\ r.kind = "ban"
    /\ IF outcome = "ok"
       THEN /\ toasts' = <<Toast("default", "User banned",
                              "User has been banned successfully.")>>
            /\ sent' = <<>>
            /\ inflight' = inflight (-) SetToBag({r})
       ELSE /\ toasts' = <<Toast("destructive", "Error",
                              OrElse(BanThrown(outcome, msg), "Failed to ban user"))>>
            /\ \E token \in Tokens : sent' = <<Request("PUT", r.target, Bearer(token))>>
            /\ inflight' = inflight
    /\ lastAct' = Act("banDone", NoUser, r.target, FALSE, outcome, BanThrown(outcome, msg))
    /\ prompts' = 0
    /\ UNCHANGED <<questions, isLoading, error, sortBy, mounted, loadPending, deleted, response>>

\* continuation of handleBanUser after its await
BanDone(r, outcome, msg) ==
    /\ BagIn(r, inflight)
    /\ r.kind = "ban"
    /\ inflight' = inflight (-) SetToBag({r})
    /\ IF outcome = "ok"
       THEN toasts' = <<Toast("default", "User banned",
                              "User has been banned successfully.")>>
       ELSE toasts' = <<Toast("destructive", "Error",
                              OrElse(BanThrown(outcome, msg), "Failed to ban user"))>>
    /\ lastAct' = Act("banDone", NoUser, r.target, FALSE, outcome, BanThrown(outcome, msg))
    /\ prompts' = 0
    /\ sent' = <<>>
    /\ UNCHANGED <<questions, isLoading, error, sortBy, mounted, loadPending, deleted, response>>

\* ------------------------------------------------------------ environment
\* the page is removed from the tree (navigation away)
Unmount ==
    /\ mounted
    /\ mounted' = FALSE
    /\ lastAct' = Act("unmount", NoUser, 0, FALSE, "", "")
    /\ prompts' = 0
    /\ sent' = <<>>
    /\ toasts' = <<>>
    /\ UNCHANGED <<questions, isLoading, error, sortBy, loadPending, inflight, deleted, response>>

\* ---------------------------------------------------------- specifications
\* every handler of the page may be called, with any arguments, while no
\* more than MaxDirect requests are in flight
Next ==
    \/ \E o \in ListOutcomes, m \in NetworkErrorMessages : FetchQuestionsDone(o, m)
    \/ \E k \in SortKeys : SetSortBy(k)
    \/ \E v \in Viewers, q \in QIds :
          handleDeleteQuestion(v, q) /\ BagCardinality(inflight') <= MaxDirect
    \/ \E r \in BagToSet(inflight), o \in CallOutcomes, m \in NetworkErrorMessages :
          DeleteDone(r, o, m)
    \/ \E v \in Viewers, u \in UserIds :
          handleBanUser(v, u) /\ BagCardinality(inflight') <= MaxDirect
    \/ \E r \in BagToSet(inflight), o \in CallOutcomes, m \in NetworkErrorMessages :
          BanDone(r, o, m)
    \/ Unmount

Spec == Init /\ [][Next]_vars

\* the delete and ban buttons of question q are on screen for viewer v
Rendered(v, q) == mounted /\ Status = "Ready" /\ IsAdmin(v) /\ q \in Range(questions)

\* the tabs are on screen
TabsRendered == mounted /\ Status = "Ready"

\* the handlers are called only by the elements the page renders
NextUI ==
    \/ \E o \in ListOutcomes, m \in NetworkErrorMessages : FetchQuestionsDone(o, m)
    \/ \E k \in SortKeys : TabsRendered /\ SetSortBy(k)
    \/ \E v \in Viewers, q \in QIds : Rendered(v, q) /\ handleDeleteQuestion(v, q)
    \/ \E r \in BagToSet(inflight), o \in CallOutcomes, m \in NetworkErrorMessages :
          DeleteDoneRecorded(r, o, m)
    \/ \E v \in Viewers, q \in QIds : Rendered(v, q) /\ handleBanUser(v, AuthorOf(q))
    \/ \E r \in BagToSet(inflight), o \in CallOutcomes, m \in NetworkErrorMessages :
          BanDone(r, o, m)
    \/ Unmount

SpecUI == Init /\ [][NextUI]_vars

\* handleDeleteQuestion is called while the list is still loading, and the
\* deletes that are applied are recorded
NextLoading ==
    \/ \E o \in ListOutcomes, m \in NetworkErrorMessages : FetchQuestionsDone(o, m)
    \/ \E k \in SortKeys : SetSortBy(k)
    \/ \E v \in Viewers, q \in QIds : Status = "Loading" /\ handleDeleteQuestion(v, q)
    \/ \E r \in BagToSet(inflight), o \in CallOutcomes, m \in NetworkErrorMessages :
          DeleteDoneRecorded(r, o, m)

SpecLoading == Init /\ [][NextLoading]_vars

\* the browser settles the promise of fetch(): the continuation of
\* fetchQuestions runs once the list request has completed
SpecLive ==
    /\ Init
    /\ [][Next]_vars
    /\ WF_vars(\E o \in ListOutcomes, m \in NetworkErrorMessages : FetchQuestionsDone(o, m))

\* the vote counts and creation days a response can carry
Votes == (-1)..MaxVote
Times == 0..MaxTime

\* the response of n questions whose votes and days are those of f
SortResponse(n, f) == [i \in 1..n |-> Question(i, f[i][1], f[i][2])]

\* the page right after the list response resp has been stored
Loaded(resp) ==
    /\ response = resp
    /\ questions = Ids(resp)
    /\ isLoading = FALSE
    /\ error = ""
    /\ sortBy = "newest"
    /\ mounted = TRUE
    /\ loadPending = FALSE
    /\ inflight = EmptyBag
    /\ deleted = {}
    /\ lastAct = Act("fetchQuestionsDone", NoUser, 0, FALSE, "ok", "")
    /\ prompts = 0
    /\ sent = <<>>
    /\ toasts = <<>>

\* a response of up to NumS questions, with any vote counts and days
SortInit == \E n \in 0..NumS : \E f \in [1..n -> Votes \X Times] : Loaded(SortResponse(n, f))

SortNext == \E k \in SortKeys : TabsRendered /\ SetSortBy(k)

\* the sorted view of every response, under every sort key
SortSpec == SortInit /\ [][SortNext]_vars

TypeOK ==
    /\ Range(questions) \subseteq QIds
    /\ Len(questions) = Cardinality(Range(questions))
    /\ isLoading \in BOOLEAN
    /\ sortBy \in SortKeys
    /\ mounted \in BOOLEAN
    /\ loadPending \in BOOLEAN
    /\ BagCardinality(inflight) <= MaxInflight
    /\ deleted \subseteq QIds
    /\ prompts \in 0..1
    /\ Len(sent) <= 1
    /\ Len(toasts) <= 1

\* ------------------------------------------------------------------ claims
Handlers == {"handleDeleteQuestion", "handleBanUser"}

FeedUnchanged ==
    /\ questions' = questions
    /\ isLoading' = isLoading
    /\ error' = error
    /\ sortBy' = sortBy

Without(s, id) == SelectSeq(s, LAMBDA x : x # id)

\* C1: a question whose confirmed delete succeeded and whose removal has been
\* applied is absent from the stored collection in every later state, for
\* every interleaving of other delete and ban requests.
C1_DeletedStaysAbsent == \A q \in deleted : q \notin Range(questions)

\* C2: requestDelete and requestBan invoked with an absent viewer or a viewer
\* who is not admin show no prompt, send no request, emit no notification and
\* leave questions, status, error message and sort key unchanged.
C2_NonAdminNoOp ==
    [][(lastAct'.name \in Handlers /\ lastAct'.viewer # "admin")
        => /\ prompts' = 0
           /\ sent' = <<>>
           /\ toasts' = <<>>
           /\ inflight' = inflight
           /\ FeedUnchanged]_vars

C2_Witness ==
    /\ lastAct.name = "handleDeleteQuestion"
    /\ lastAct.viewer = "member"
    /\ questions # <<>>
    /\ Status = "Ready"

\* C3: the step that applies a successful delete of q changes the stored
\* collection only by removing q: the other questions stay, in the same
\* order, and none is added.
C3_RemovesOnlyTarget ==
    [][(lastAct'.name = "deleteDone" /\ lastAct'.outcome = "ok" /\ mounted)
        => questions' = Without(questions, lastAct'.target)]_vars

\* C4: a confirmed delete that fails at the gateway leaves questions, status,
\* error message and sort key unchanged and emits exactly one notification,
\* a failure notification carrying the error's message.
C4_DeleteFailure ==
    [][(lastAct'.name = "deleteDone" /\ lastAct'.outcome # "ok")
        => /\ FeedUnchanged
           /\ Len(toasts') = 1
           /\ toasts'[1].variant = "destructive"
           /\ toasts'[1].description = lastAct'.thrown
           /\ lastAct'.outcome = "network" => toasts'[1].description \in NetworkErrorMessages]_vars

C4_Witness ==
    /\ lastAct.name = "deleteDone"
    /\ lastAct.outcome = "network"
    /\ lastAct.target \in Range(questions)
    /\ mounted
    /\ Len(toasts) = 1

\* C5: requestBan never changes the feed: neither its invocation nor its
\* completion, whatever the outcome, changes questions, status, error message
\* or sort key; on failure the notification carries the error's message.
C5_BanLeavesFeed ==
    [][(lastAct'.name \in {"handleBanUser", "banDone"})
        => /\ FeedUnchanged
           /\ (lastAct'.name = "banDone" /\ lastAct'.outcome # "ok")
                => /\ Len(toasts') = 1
                   /\ toasts'[1].variant = "destructive"
                   /\ toasts'[1].description = lastAct'.thrown
                   /\ lastAct'.outcome = "network"
                        => toasts'[1].description \in NetworkErrorMessages]_vars

C5_Witness ==
    /\ lastAct.name = "banDone"
    /\ lastAct.outcome = "network"
    /\ mounted
    /\ \E q \in Range(questions) : AuthorOf(q) = lastAct.target

\* C6: an admin who declines the confirmation prompt of requestDelete or
\* requestBan causes no request, no change of the feed and no notification.
C6_DeclineNoOp ==
    [][(lastAct'.name \in Handlers /\ lastAct'.viewer = "admin" /\ ~lastAct'.confirmed)
        => /\ prompts' = 1
           /\ sent' = <<>>
           /\ toasts' = <<>>
           /\ inflight' = inflight
           /\ FeedUnchanged]_vars

C6_Witness ==
    /\ lastAct.name = "handleDeleteQuestion"
    /\ lastAct.viewer = "admin"
    /\ ~lastAct.confirmed
    /\ questions # <<>>
    /\ prompts = 1

\* C7: when the initial load of a mounted page fails (transport error,
\* non-success status or unreadable payload) the feed is Errored with an
\* error message stored and no question, and exactly one error notification
\* is emitted for that load: the load completes once.
C7_LoadFailure ==
    [][/\ (lastAct'.name = "fetchQuestionsDone" /\ lastAct'.outcome # "ok" /\ mounted)
          => /\ Status' = "Errored"
             /\ error' # ""
             /\ questions' = <<>>
             /\ Len(toasts') = 1
             /\ toasts'[1].variant = "destructive"
       /\ lastAct'.name = "fetchQuestionsDone" => (loadPending /\ ~loadPending')
       /\ ~loadPending => ~loadPending']_vars

C7_Witness ==
    /\ lastAct.name = "fetchQuestionsDone"
    /\ lastAct.outcome = "parse"
    /\ mounted
    /\ Status = "Errored"
    /\ Len(toasts) = 1

\* C8: in every state of the feed the error message is present iff the
\* status is Errored, Errored implies that no question is stored, and Ready
\* implies that the error message is absent.
C8_FeedInvariant ==
    /\ (error # "") <=> (Status = "Errored")
    /\ Status = "Errored" => questions = <<>>
    /\ Status = "Ready" => error = ""

C8_Witness ==
    /\ Status = "Errored"
    /\ sortBy = "votes"
    /\ lastAct.name = "deleteDone"
    /\ lastAct.outcome = "ok"

\* C9: no delete or ban request is sent without a non-empty auth token: with
\* no token in the session store the handlers issue no gateway call.
C9_TokenRequired ==
    \A i \in 1..Len(sent) :
        sent[i].method # "GET" => sent[i].auth \notin {Bearer(NoToken), Bearer("")}

\* C10: when the page is unmounted before the initial load completes, the
\* completion of the load changes neither questions, status nor error
\* message and does nothing on behalf of the unmounted page.
C10_DiscardAfterUnmount ==
    [][(lastAct'.name = "fetchQuestionsDone" /\ ~mounted)
        => /\ FeedUnchanged
           /\ toasts' = <<>>
           /\ sent' = <<>>
           /\ prompts' = 0]_vars

Pos(s, x) == CHOOSE i \in 1..Len(s) : s[i] = x

\* the value the sort key orders by: the vote count, or the creation day
KeyValue(id) == IF sortBy = "votes" THEN Q(id).voteCount ELSE Q(id).createdAt

\* C13: for every sort key and stored collection the displayed sequence is
\* a permutation of the stored one, in non-increasing order of the key's
\* value (vote count for votes, creation time for newest and activity,
\* which give the same sequence), and questions of equal value keep their
\* stored order.
C13_SortedView ==
    LET out == SortedQuestions
    IN  /\ Len(out) = Len(questions)
        /\ Range(out) = Range(questions)
        /\ \A i, j \in 1..Len(out) : i < j =>
              /\ KeyValue(out[i]) >= KeyValue(out[j])
              /\ KeyValue(out[i]) = KeyValue(out[j])
                    => Pos(questions, out[i]) < Pos(questions, out[j])
        /\ Sorted(questions, "newest") = Sorted(questions, "activity")

\* votes [0, 1, -1] are displayed as [1, 0, -1]
C13_Witness ==
    /\ sortBy = "votes"
    /\ Len(questions) = 3
    /\ Q(1).voteCount = 0 /\ Q(2).voteCount = 1 /\ Q(3).voteCount = -1
    /\ SortedQuestions = <<2, 1, 3>>

NoListRequest(reqs) == \A i \in 1..Len(reqs) : reqs[i].method # "GET"

\* C11: the status moves only from Loading to Ready or to Errored; Ready and
\* Errored are never left; no step after the mount sends a list request,
\* so there is one list request per page and never two loads in flight.
C11_StatusPath ==
    [][/\ Status = "Ready" => Status' = "Ready"
       /\ Status = "Errored" => Status' = "Errored"
       /\ Status' = "Loading" => Status = "Loading"
       /\ NoListRequest(sent')
       /\ loadPending' => loadPending]_vars

C11_Witness ==
    /\ Status = "Ready"
    /\ lastAct.name = "deleteDone"
    /\ lastAct.outcome = "http"
    /\ mounted
    /\ ~loadPending

\* C12: a failed load is followed by no further list request, and every
\* confirmed delete or ban of an admin sends exactly one gateway request:
\* one at the invocation, none at the completion, whatever its outcome.
C12_NoRetry ==
    [][/\ lastAct.name = "fetchQuestionsDone" /\ lastAct.outcome # "ok"
            => NoListRequest(sent') /\ ~loadPending'
       /\ ~loadPending => NoListRequest(sent') /\ ~loadPending'
       /\ (lastAct'.name \in Handlers /\ lastAct'.viewer = "admin" /\ lastAct'.confirmed)
            => /\ Len(sent') = 1
               /\ sent'[1].method = (IF lastAct'.name = "handleDeleteQuestion"
                                      THEN "DELETE" ELSE "PUT")
               /\ BagCardinality(inflight') = BagCardinality(inflight) + 1
       /\ lastAct'.name \in {"deleteDone", "banDone"}
            => /\ sent' = <<>>
               /\ BagCardinality(inflight') = BagCardinality(inflight) - 1]_vars

C12_Witness ==
    /\ lastAct.name = "banDone"
    /\ lastAct.outcome = "http"
    /\ sent = <<>>
    /\ inflight = EmptyBag
    /\ Status = "Errored"

\* C14: the step that changes the sort key changes nothing else: stored
\* collection, status and error message stay, and it sends no list request
\* and no gateway request.
C14_SortFrame ==
    [][sortBy' # sortBy
        => /\ questions' = questions
           /\ isLoading' = isLoading
           /\ error' = error
           /\ Status' = Status
           /\ sent' = <<>>
           /\ inflight' = inflight
           /\ loadPending' = loadPending]_vars

C14_Witness ==
    /\ lastAct.name = "setSortBy"
    /\ sortBy = "votes"
    /\ Len(questions) = 2
    /\ SortedQuestions # questions

\* the arrays removal is applied to: the stored one and the captured ones
Snapshots == {questions} \cup {r.snap : r \in BagToSet(inflight)}

C16_LoadingDeleteKeepsOthers ==
    (mounted /\ Status = "Ready" /\ ~loadPending /\ inflight = EmptyBag)
        => \A q \in {response[i].id : i \in 1..Len(response)} \ deleted : q \in Range(questions)

\* C17: the sort control can be used in every status of a mounted page:
\* Loading, Ready and Errored.
C17_SortEnabledEverywhere ==
    mounted => \A k \in SortKeys \ {sortBy} : ENABLED (TabsRendered /\ SetSortBy(k))

RECURSIVE IsSubseq(_, _)
IsSubseq(s, t) ==
    IF s = <<>> THEN TRUE
    ELSE IF t = <<>> THEN FALSE
    ELSE IF Head(s) = Head(t) THEN IsSubseq(Tail(s), Tail(t))
    ELSE IsSubseq(s, Tail(t))

\* the ids of the list response, in its order
ResponseIds == [i \in 1..Len(response) |-> response[i].id]

\* C18: the stored collection is always a subsequence of the list response,
\* in the order of the response and without a repeated id; a successful
\* load stores the response as it is.
C18_SubsequenceOfResponse ==
    /\ IsSubseq(questions, ResponseIds)
    /\ \A i, j \in 1..Len(questions) : questions[i] = questions[j] => i = j
    /\ (lastAct.name = "fetchQuestionsDone" /\ lastAct.outcome = "ok" /\ mounted)
         => questions = ResponseIds

C18_Witness ==
    /\ Len(response) = 2
    /\ questions = <<2>>
    /\ lastAct.name = "deleteDone"
    /\ lastAct.outcome = "ok"

\* C19: provided the list request completes, a page that stays mounted
\* leaves Loading: it reaches Ready or Errored.
C19_LeavesLoading == <>(~mounted \/ Status \in {"Ready", "Errored"})

C19_Witness ==
    /\ lastAct.name = "fetchQuestionsDone"
    /\ lastAct.outcome = "network"
    /\ mounted
    /\ Status = "Errored"
    /\ ~loadPending

====
